---- MODULE Spec2Model ----
(***************************************************************************)
(* VISTA bridge off-chain services: the Indexer, the Relayer with its      *)
(* SQLite store, and the Mirror worker, as one state machine.              *)
(*                                                                         *)
(* Durable state: the tables pending_mirrors, processed_deposits and       *)
(* bridge_config, and the destination ledger.  Volatile state (lost when   *)
(* the process exits): the Indexer's processedDeposits set, the Relayer's  *)
(* depositQueue, and the position of every fiber.  Every step is one await *)
(* of the source: a store statement, a ledger submission, a queue          *)
(* operation.                                                              *)
(* Timestamps (processed_at, last_retry_at) are not modelled.              *)
(***************************************************************************)
EXTENDS Integers, Sequences, FiniteSets, TLC

\* ------------------------------------------------------------------ bounds
MaxCrashes == 1
MaxRetryCount == 4
MaxMirrorTxs == 2

\* ------------------------------------------------------- program constants
\* The bridge amounts are in lovelace; BRIDGE_MAX_TRANSFER_AMOUNT is set to
\* 2,000 ADA here, the other values are the defaults of the configuration.
minDepositAmount == 2000000
maxTransferAmount == 2000000000
feeAmount == 1000000
retryAttempts == 3
minimumDestinationOutput == 1000000
SweepConcurrency == 3
metadataLabel == 1337
SUBMITTED == 2
CONFIRMED == 3
FAILED == 4

\* enum MirrorStatus.
MirrorStatus ==
  [UNSPECIFIED |-> 0, PENDING |-> 1, SUBMITTED |-> 2, CONFIRMED |-> 3,
   FAILED |-> 4]

allowedAssets == {"ADA"}

\* The deposit events the source adapter delivers: one that passes
\* validateDeposit, one below the minimum, one above the maximum and one of
\* an asset that is not allowed.
SourceEvents ==
  { [transactionHash |-> "d1", amount |-> 5000000, assetType |-> "ADA",
     senderAddress |-> "addr_d1", recipientAddress |-> "addr_bridge"],
    [transactionHash |-> "d3", amount |-> 1500000, assetType |-> "ADA",
     senderAddress |-> "addr_d3", recipientAddress |-> "addr_bridge"],
    [transactionHash |-> "d4", amount |-> 2000000001, assetType |-> "ADA",
     senderAddress |-> "addr_d4", recipientAddress |-> "addr_bridge"],
    [transactionHash |-> "d5", amount |-> 5000000, assetType |-> "VISTA",
     senderAddress |-> "addr_d5", recipientAddress |-> "addr_bridge"] }

\* Two deposits that pass validateDeposit; the net amount of the second is
\* not above the minimum output of the destination.
PairEvents ==
  { [transactionHash |-> "d1", amount |-> 5000000, assetType |-> "ADA",
     senderAddress |-> "addr_d1", recipientAddress |-> "addr_bridge"],
    [transactionHash |-> "d2", amount |-> 2000000, assetType |-> "ADA",
     senderAddress |-> "addr_d2", recipientAddress |-> "addr_bridge"] }

\* The deposit d1 as the adapter can build it: the metadata text under a
\* label is what the depositor wrote into the transaction.
MetadataTexts == {"memo", "__BIGINT__7", "__BIGINT__", "__BIGINT__memo"}

BlobEvents ==
  { [transactionHash |-> "d1", amount |-> a, assetType |-> "ADA",
     senderAddress |-> "addr_d1", recipientAddress |-> "addr_bridge",
     blockSlot |-> b, timestamp |-> t, metadata |-> [label \in {"674"} |-> m]] :
      a \in {2000000, 5000000, 2000000000}, b \in {0, 42},
      t \in {0, 1700000000}, m \in MetadataTexts }

\* Two deposits that the Indexer and the destination accept.
LaterEvents ==
  { [transactionHash |-> "d1", amount |-> 5000000, assetType |-> "ADA",
     senderAddress |-> "addr_d1", recipientAddress |-> "addr_bridge"],
    [transactionHash |-> "d6", amount |-> 3000000, assetType |-> "ADA",
     senderAddress |-> "addr_d6", recipientAddress |-> "addr_bridge"] }

\* Three such deposits: one more than the sweep and the subscription need
\* to fill the worker pool.
PoolEvents ==
  LaterEvents \cup
  { [transactionHash |-> "d7", amount |-> 4000000, assetType |-> "ADA",
     senderAddress |-> "addr_d7", recipientAddress |-> "addr_bridge"] }

TxHashes ==
  { e.transactionHash : e \in SourceEvents \cup PairEvents \cup PoolEvents }

NoEvent == [transactionHash |-> "", amount |-> 0, assetType |-> "",
            senderAddress |-> "", recipientAddress |-> ""]

VARIABLES
  pending_mirrors,     \* table: deposit_tx_hash -> row
  processed_deposits,  \* table: transaction_hash -> row
  destLedger,          \* mirror transactions accepted by the destination
  processedDeposits,   \* Indexer: in-memory set of txHashes
  depositQueue,        \* Relayer: Queue.unbounded<DepositEvent>
  indexer,             \* Indexer fiber: [pc, event, error]
  workers,             \* Mirror: slot -> processDeposit execution
  sweepTodo,           \* Mirror: deposits of the running sweep not yet started
  crashes,             \* number of process exits so far
  offered,             \* history: events offered to depositQueue in this boot
  everStored,          \* history: events whose addPendingMirror succeeded
  liveFailed,          \* history: an attempt of the subscription failed in this boot
  bridge_config,       \* table: key -> value
  relayer,             \* Relayer: the state loaded at boot, persistState
  watchStream          \* adapter: tx events received, DepositEvents emitted

vars == << pending_mirrors, processed_deposits, destLedger, processedDeposits,
           depositQueue, indexer, workers, sweepTodo,
           crashes, offered, everStored, liveFailed, bridge_config,
           relayer, watchStream >>

durable == << pending_mirrors, processed_deposits, destLedger >>

\* ------------------------------------------------------------ the store
EmptyTable == [ h \in {} |-> NoEvent ]

addProcessedDeposit(tbl, deposit) ==
  [ h \in DOMAIN tbl \cup {deposit.transactionHash} |->
      IF h = deposit.transactionHash
        THEN [mirrorTxHash |-> deposit.mirrorTxHash, status |-> deposit.status]
        ELSE tbl[h] ]

\* bridge_config has no row until saveBridgeState writes one.
EmptyConfig == [ key \in {} |-> "" ]

\* typeof value, for the values of a stored DepositEvent: a string, a bigint
\* or an object (the metadata map).
typeof(value) ==
  LET c == Head(ToString(value)) IN
  IF c = "\"" THEN "string"
  ELSE IF c \in {"-", "0", "1", "2", "3", "4", "5", "6", "7", "8", "9"}
    THEN "bigint"
    ELSE "object"

\* String.prototype.startsWith and String.prototype.slice(start).
startsWith(value, searchString) ==
  /\ Len(value) >= Len(searchString)
  /\ SubSeq(value, 1, Len(searchString)) = searchString

slice(value, start) == SubSeq(value, start + 1, Len(value))

\* bigint.toString() and BigInt(text) for decimal texts: BigInt("") is 0n,
\* a text that is not an integer literal is a SyntaxError.
toString(n) == ToString(n)

Digits == {"0", "1", "2", "3", "4", "5", "6", "7", "8", "9"}

RECURSIVE decimalValue(_)
decimalValue(text) ==
  IF text = "" THEN 0
  ELSE 10 * decimalValue(SubSeq(text, 1, Len(text) - 1))
         + (CHOOSE d \in 0..9 : ToString(d) = SubSeq(text, Len(text), Len(text)))

isIntegerLiteral(text) ==
  LET digits == IF startsWith(text, "-") THEN slice(text, 1) ELSE text IN
  /\ startsWith(text, "-") => digits # ""
  /\ \A i \in 1..Len(digits) : SubSeq(digits, i, i) \in Digits

BigInt(text) ==
  IF startsWith(text, "-") THEN 0 - decimalValue(slice(text, 1))
  ELSE decimalValue(text)

\* The replacer of serializeWithBigInt and the reviver of
\* deserializeWithBigInt; JSON.stringify and JSON.parse call them on every
\* value of the object, those of the metadata map included.
replacer(value) ==
  IF typeof(value) = "bigint" THEN "__BIGINT__" \o toString(value) ELSE value

reviver(value) ==
  IF typeof(value) = "string" /\ startsWith(value, "__BIGINT__")
    THEN BigInt(slice(value, 10))
    ELSE value

\* The JSON text is kept as the tree of its values.
serializeWithBigInt(obj) ==
  [ key \in DOMAIN obj |->
      IF typeof(obj[key]) = "object"
        THEN [ k \in DOMAIN obj[key] |-> replacer(obj[key][k]) ]
        ELSE replacer(obj[key]) ]

deserializeWithBigInt(str) ==
  [ key \in DOMAIN str |->
      IF typeof(str[key]) = "object"
        THEN [ k \in DOMAIN str[key] |-> reviver(str[key][k]) ]
        ELSE reviver(str[key]) ]

\* JSON.parse throws the SyntaxError of BigInt out of the reviver.
throwsSyntaxError(str) ==
  LET bad(value) == /\ typeof(value) = "string"
                    /\ startsWith(value, "__BIGINT__")
                    /\ ~ isIntegerLiteral(slice(value, 10)) IN
  \E key \in DOMAIN str :
    IF typeof(str[key]) = "object"
      THEN \E k \in DOMAIN str[key] : bad(str[key][k])
      ELSE bad(str[key])

\* The rows of pending_mirrors that loadBridgeState can read: one deposit_data
\* that does not parse and its catch answers with no row at all.
readablePendingMirrors(tbl) ==
  IF \A h \in DOMAIN tbl : ~ throwsSyntaxError(tbl[h].deposit_data)
    THEN DOMAIN tbl ELSE {}

\* value || null and value || undefined; "null" is the SQL NULL.
orNull(value) ==
  IF value \in {"undefined", ""} THEN "null" ELSE value

orUndefined(value) ==
  IF value \in {"null", ""} THEN "undefined" ELSE value

addPendingMirror(tbl, pending) ==
  [ h \in DOMAIN tbl \cup {pending.depositTxHash} |->
      IF h = pending.depositTxHash
        THEN [deposit_data |-> serializeWithBigInt(pending.deposit),
              retryCount |-> pending.retryCount,
              errorMessage |-> orNull(pending.errorMessage)]
        ELSE tbl[h] ]

removePendingMirror(tbl, depositTxHash) ==
  [ h \in DOMAIN tbl \ {depositTxHash} |-> tbl[h] ]

updatePendingMirror(tbl, depositTxHash, retryCount, errorMessage) ==
  [ h \in DOMAIN tbl |->
      IF h = depositTxHash
        THEN [tbl[h] EXCEPT !.retryCount = retryCount,
                            !.errorMessage = orNull(errorMessage)]
        ELSE tbl[h] ]

\* The rows and the mirror transactions of a deposit.
InPending(d) == d \in DOMAIN pending_mirrors
InProcessed(d) == d \in DOMAIN processed_deposits
Submissions(d) == { t \in destLedger : t.metadata.originalTx = d }

\* ---------------------------------------------------- the configuration
\* The BridgeConfig of the model: the amounts above, one deposit address,
\* one sender address and the default ports.
config ==
  [networks |->
     [source |-> [depositAddresses |-> << "addr_bridge" >>,
                  utxorpcEndpoint |-> "https://preprod.utxorpc-v0.demeter.run"],
      destination |-> [senderAddresses |-> << "addr_sender" >>,
                       utxorpcEndpoint |-> "https://preview.utxorpc-v0.demeter.run"]],
   bridge |-> [minDepositAmount |-> minDepositAmount,
               maxTransferAmount |-> maxTransferAmount,
               feeAmount |-> feeAmount],
   grpc |-> [indexerPort |-> 50051, relayerPort |-> 50052, mirrorPort |-> 50053]]

\* validateConfig: "ok", or the message of the Error it throws.
validateConfig(c) ==
  IF Len(c.networks.source.depositAddresses) = 0
    THEN "Source network must have at least one deposit address"
  ELSE IF Len(c.networks.destination.senderAddresses) = 0
    THEN "Destination network must have at least one sender address"
  ELSE IF c.bridge.minDepositAmount >= c.bridge.maxTransferAmount
    THEN "Minimum deposit amount must be less than maximum transfer amount"
  ELSE IF c.bridge.feeAmount >= c.bridge.minDepositAmount
    THEN "Fee amount must be less than minimum deposit amount"
  ELSE IF Cardinality({c.grpc.indexerPort, c.grpc.relayerPort, c.grpc.mirrorPort}) # 3
    THEN "All gRPC ports must be unique"
  ELSE IF ~startsWith(c.networks.source.utxorpcEndpoint, "http")
    THEN "Source UTXORPC endpoint must be a valid HTTP(S) URL"
  ELSE IF ~startsWith(c.networks.destination.utxorpcEndpoint, "http")
    THEN "Destination UTXORPC endpoint must be a valid HTTP(S) URL"
  ELSE "ok"

\* ------------------------------------------------- the source adapter
watchedAddress == "addr_bridge"

\* A transaction event without a transaction (event.Tx is undefined).
NoTx == [hash |-> "", outputs |-> << >>, sender |-> "", readable |-> TRUE]

\* The transactions of the source chain.  An address is the bech32 text the
\* bytes decode to, or "undecodable" when CML.Address.from_raw_bytes throws;
\* a transaction that is not readable makes extractDepositsFromTx throw
\* outside the loop over the outputs.
Tx1 == [hash |-> "d1", sender |-> "addr_d1", readable |-> TRUE,
        outputs |-> << [address |-> "addr_bridge", coin |-> 5000000],
                       [address |-> "addr_bridge", coin |-> 3000000] >>]
Tx6 == [hash |-> "d6", sender |-> "undecodable", readable |-> TRUE,
        outputs |-> << [address |-> "undecodable", coin |-> 4000000],
                       [address |-> "addr_other", coin |-> 4000000],
                       [address |-> "addr_bridge", coin |-> 0],
                       [address |-> "addr_bridge", coin |-> 3000000] >>]
Tx7 == [hash |-> "d7", sender |-> "addr_d7", readable |-> TRUE,
        outputs |-> << [address |-> "addr_bridge", coin |-> 4000000] >>]
Tx8 == [hash |-> "d8", sender |-> "addr_d8", readable |-> FALSE,
        outputs |-> << [address |-> "addr_bridge", coin |-> 4000000] >>]

\* The events of watchClient.watchTxForAddress: d1 and d6 are applied, d1 and
\* d7 are rolled back, d8 is applied and cannot be read, one event carries
\* no transaction.
TxEvents ==
  { [action |-> "apply", Tx |-> Tx1], [action |-> "undo", Tx |-> Tx1],
    [action |-> "apply", Tx |-> Tx6], [action |-> "undo", Tx |-> Tx7],
    [action |-> "apply", Tx |-> Tx8], [action |-> "apply", Tx |-> NoTx] }

NoTxEvents == [received |-> {}, emitted |-> << >>]

\* The deposits of the outputs outputIndex, outputIndex + 1, ... of tx: an
\* output whose address cannot be decoded, or is not the watched address, or
\* whose coin is not positive, gives none.
RECURSIVE depositsFromOutputs(_, _, _)
depositsFromOutputs(tx, watched, outputIndex) ==
  IF outputIndex > Len(tx.outputs) THEN << >>
  ELSE
    LET output == tx.outputs[outputIndex]
        rest == depositsFromOutputs(tx, watched, outputIndex + 1) IN
    IF output.address = watched /\ output.coin > 0
      THEN << [transactionHash |-> IF tx.hash = "" THEN "unknown_hash" ELSE tx.hash,
               amount |-> output.coin, assetType |-> "ADA",
               senderAddress |-> IF tx.sender \in {"", "undecodable"}
                                   THEN "unknown_sender" ELSE tx.sender,
               recipientAddress |-> watched] >> \o rest
      ELSE rest

\* extractDepositsFromTx: one DepositEvent per matching output, all with the
\* hash of the transaction; [] when the extraction throws.
extractDepositsFromTx(tx, watched) ==
  IF tx.readable THEN depositsFromOutputs(tx, watched, 1) ELSE << >>

yieldsDepositsAnyAction(event) ==
  event.Tx # NoTx

\* watchAddresses: event.action === 'apply' && event.Tx.
yieldsDeposits(event) ==
  event.action = "apply" /\ event.Tx # NoTx

\* watchAddresses: the next event of the for-await loop; every deposit of it
\* is emitted into the stream.
WatchEvent(event) ==
  /\ indexer.pc \notin {"retry_sleep", "failed"}
  /\ event \notin watchStream.received
  /\ watchStream' =
       [received |-> watchStream.received \cup {event},
        emitted |-> watchStream.emitted \o
                    (IF yieldsDeposits(event)
                       THEN extractDepositsFromTx(event.Tx, watchedAddress)
                       ELSE << >>)]
  /\ UNCHANGED << liveFailed, bridge_config, relayer, durable, processedDeposits, depositQueue,
                  indexer, workers, sweepTodo, crashes, offered, everStored >>

\* ------------------------------------------------------------ the Indexer
validateDepositWithoutMinimum(deposit) ==
  IF deposit.amount > maxTransferAmount THEN "above maximum"
  ELSE IF deposit.assetType \notin allowedAssets THEN "asset not allowed"
  ELSE "ok"

validateDeposit(deposit) ==
  IF deposit.amount < minDepositAmount THEN "below minimum"
  ELSE IF deposit.amount > maxTransferAmount THEN "above maximum"
  ELSE IF deposit.assetType \notin allowedAssets THEN "asset not allowed"
  ELSE "ok"

IndexerIdle == [pc |-> "watch", event |-> NoEvent, error |-> "none"]

DeliverUnmarked(e) ==
  /\ indexer.pc = "watch"
  /\ IF e.transactionHash \in processedDeposits
       THEN UNCHANGED indexer
       ELSE IF validateDeposit(e) # "ok"
         THEN indexer' = [pc |-> "failed", event |-> e, error |-> "validation"]
         ELSE indexer' = [pc |-> "publish_store", event |-> e, error |-> "none"]
  /\ UNCHANGED << watchStream, liveFailed, bridge_config, relayer, durable, processedDeposits, depositQueue, workers, sweepTodo,
                  crashes, offered, everStored >>

\* processDeposit up to its first await: the check of the in-memory set,
\* validateDeposit, and the mark in the set.
processDeposit(e) ==
  /\ indexer.pc = "watch"
  /\ IF e.transactionHash \in processedDeposits
       THEN UNCHANGED << indexer, processedDeposits >>
       ELSE IF validateDeposit(e) # "ok"
         THEN /\ indexer' = [pc |-> "failed", event |-> e, error |-> "validation"]
              /\ UNCHANGED processedDeposits
         ELSE /\ processedDeposits' = processedDeposits \cup {e.transactionHash}
              /\ indexer' = [pc |-> "publish_store", event |-> e, error |-> "none"]

\* The source stream yields an event e to Stream.mapEffect(processDeposit).
Deliver(e) ==
  /\ processDeposit(e)
  /\ UNCHANGED << watchStream, liveFailed, bridge_config, relayer, durable, depositQueue, workers, sweepTodo,
                  crashes, offered, everStored >>

\* Stream.mapEffect(processDeposit) pulls the next DepositEvent the adapter
\* has emitted.
Take ==
  /\ watchStream.emitted # << >>
  /\ processDeposit(Head(watchStream.emitted))
  /\ watchStream' = [watchStream EXCEPT !.emitted = Tail(@)]
  /\ UNCHANGED << liveFailed, bridge_config, relayer, durable, depositQueue, workers, sweepTodo,
                  crashes, offered, everStored >>

\* utxorpc.watchAddresses fails: the handler of Stream.catchAll in
\* watchAddresses logs and starts Effect.sleep("30 seconds").
StreamError ==
  /\ indexer.pc = "watch"
  /\ indexer' = [pc |-> "retry_sleep", event |-> NoEvent, error |-> "stream"]
  /\ UNCHANGED << watchStream, liveFailed, bridge_config, relayer, durable, processedDeposits, depositQueue,
                  workers, sweepTodo, crashes, offered, everStored >>

\* The sleep is over: the handler ends with the value Effect.fail(...) and
\* without a call of utxorpc.watchAddresses; the deposit stream is over.
StreamHandlerEnd ==
  /\ indexer.pc = "retry_sleep"
  /\ indexer' = [indexer EXCEPT !.pc = "failed"]
  /\ UNCHANGED << watchStream, liveFailed, bridge_config, relayer, durable, processedDeposits, depositQueue,
                  workers, sweepTodo, crashes, offered, everStored >>

\* ------------------------------------------------------------ the Relayer
publishAfterStoreUnchecked(stored) ==
  "publish_offer"

\* publishDeposit: where the call goes after database.addPendingMirror.
publishAfterStore(stored) ==
  IF stored THEN "publish_offer" ELSE "failed"

PublishStore(ok) ==
  /\ indexer.pc = "publish_store"
  /\ IF ok
       THEN /\ pending_mirrors' = addPendingMirror(pending_mirrors,
                   [depositTxHash |-> indexer.event.transactionHash,
                    deposit |-> indexer.event, retryCount |-> 0,
                    errorMessage |-> "undefined"])
            /\ everStored' = everStored \cup {indexer.event}
       ELSE UNCHANGED << pending_mirrors, everStored >>
  /\ indexer' = [indexer EXCEPT
                   !.pc = publishAfterStore(ok),
                   !.error = IF ok THEN "none" ELSE "RelayerError"]
  /\ UNCHANGED << watchStream, liveFailed, bridge_config, relayer, processed_deposits, destLedger, processedDeposits,
                  depositQueue, workers, sweepTodo,
                  crashes, offered >>

PublishOffer ==
  /\ indexer.pc = "publish_offer"
  /\ depositQueue' = Append(depositQueue, indexer.event)
  /\ offered' = offered \cup {indexer.event}
  /\ indexer' = IndexerIdle
  /\ UNCHANGED << watchStream, liveFailed, bridge_config, relayer, durable, processedDeposits, workers, sweepTodo,
                  crashes, everStored >>

\* --------------------------------------------------------- the Mirror
\* One execution of processDeposit.  hash is mirrorTx.hash, the hash
\* pre-computed for the mirror transaction (0: none built yet).
NewWorker(deposit) ==
  [deposit |-> deposit, pc |-> "attempt", hash |-> 0,
   hadPending |-> FALSE, newRetryCount |-> 0, result |-> "none"]

LiveSlot == "live"
SweepSlots == DOMAIN workers \ {LiveSlot}

MirrorTxToRecipient(deposit, k) ==
  [hash |-> << deposit.transactionHash, k >>,
   outputs |-> << [address |-> deposit.recipientAddress,
                   lovelace |-> deposit.amount - feeAmount] >>,
   metadata |-> [label |-> metadataLabel,
                 originalTx |-> deposit.transactionHash]]

\* The transaction createMirrorTransaction asks the builder for: outputs are
\* the pay.ToAddress calls, metadata the attachMetadata call.  (The change
\* the builder returns to the bridge wallet is not part of it.)
MirrorTx(deposit, k) ==
  [hash |-> << deposit.transactionHash, k >>,
   outputs |-> << [address |-> deposit.senderAddress,
                   lovelace |-> deposit.amount - feeAmount] >>,
   metadata |-> [label |-> metadataLabel,
                 originalTx |-> deposit.transactionHash]]

netAmountAtLeastMinimum(deposit) ==
  ~ (deposit.amount - feeAmount < minimumDestinationOutput)

\* createMirrorTransaction: the net-amount check.
netAmountOk(deposit) ==
  ~ (deposit.amount - feeAmount <= minimumDestinationOutput)

\* Effect.catchAll of processDeposit: the execution goes on with the FAILED
\* update.
Failing(w) ==
  [w EXCEPT !.pc = "fail_load"]

LiveTakeNewest ==
  /\ LiveSlot \notin DOMAIN workers
  /\ depositQueue # << >>
  /\ workers' = [ s \in DOMAIN workers \cup {LiveSlot} |->
                    IF s = LiveSlot
                      THEN NewWorker(depositQueue[Len(depositQueue)])
                      ELSE workers[s] ]
  /\ depositQueue' = SubSeq(depositQueue, 1, Len(depositQueue) - 1)
  /\ UNCHANGED << watchStream, liveFailed, bridge_config, relayer, durable, processedDeposits, indexer, sweepTodo,
                  crashes, offered, everStored >>

LiveTakeUntilFailure ==
  /\ ~ liveFailed
  /\ LiveSlot \notin DOMAIN workers
  /\ depositQueue # << >>
  /\ workers' = [ s \in DOMAIN workers \cup {LiveSlot} |->
                    IF s = LiveSlot THEN NewWorker(Head(depositQueue))
                    ELSE workers[s] ]
  /\ depositQueue' = Tail(depositQueue)
  /\ UNCHANGED << watchStream, liveFailed, bridge_config, relayer, durable, processedDeposits, indexer, sweepTodo,
                  crashes, offered, everStored >>

\* Stream.mapEffect(processDeposit) takes the next event of the queue.
LiveTake ==
  /\ LiveSlot \notin DOMAIN workers
  /\ depositQueue # << >>
  /\ workers' = [ s \in DOMAIN workers \cup {LiveSlot} |->
                    IF s = LiveSlot THEN NewWorker(Head(depositQueue))
                    ELSE workers[s] ]
  /\ depositQueue' = Tail(depositQueue)
  /\ UNCHANGED << watchStream, liveFailed, bridge_config, relayer, durable, processedDeposits, indexer, sweepTodo,
                  crashes, offered, everStored >>

\* initializeLucid, createMirrorTransaction and submitTransaction.  outcome
\* is what the destination side does: "build" (Lucid, building or signing
\* fails), "submit" (the submission fails) or "accept".  On "accept" the
\* ledger holds the transaction under the hash k that signedTx.submit()
\* returns; toHash is mirrorTx.hash, computed by tx.toHash() before the
\* submission.  The two may differ (submitTransaction only warns):
\* MaxMirrorTxs + 1 stands for a hash the ledger does not hold.  The hashes
\* of the ledger are numbered in the order of acceptance.
AttemptOutcomes == {"build", "submit", "accept"}

AttemptIgnoringSubmitFailure(s, outcome) ==
  /\ s \in DOMAIN workers
  /\ workers[s].pc = "attempt"
  /\ LET w == workers[s] IN
     IF outcome = "build" \/ ~ (w.deposit.amount - feeAmount > minimumDestinationOutput)
       THEN /\ workers' = [workers EXCEPT ![s] = [w EXCEPT !.pc = "fail_load"]]
            /\ UNCHANGED destLedger
       ELSE IF outcome = "submit"
         THEN /\ workers' = [workers EXCEPT ![s] =
                               [w EXCEPT !.pc = "confirm_add", !.hash = MaxMirrorTxs + 1]]
              /\ UNCHANGED destLedger
         ELSE \E k \in 1..MaxMirrorTxs : \E toHash \in {k, MaxMirrorTxs + 1} :
                /\ [hash |-> << w.deposit.transactionHash, k >>,
                    outputs |-> << [address |-> w.deposit.senderAddress,
                                    lovelace |-> w.deposit.amount - feeAmount] >>,
                    metadata |-> [label |-> metadataLabel,
                                  originalTx |-> w.deposit.transactionHash]] \notin destLedger
                /\ \A j \in 1..(k - 1) :
                     \E t \in destLedger : t.hash = << w.deposit.transactionHash, j >>
                /\ destLedger' = destLedger \cup
                     {[hash |-> << w.deposit.transactionHash, k >>,
                       outputs |-> << [address |-> w.deposit.senderAddress,
                                       lovelace |-> w.deposit.amount - feeAmount] >>,
                       metadata |-> [label |-> metadataLabel,
                                     originalTx |-> w.deposit.transactionHash]]}
                /\ workers' = [workers EXCEPT ![s] =
                                 [w EXCEPT !.pc = "confirm_add", !.hash = toHash]]
  /\ UNCHANGED << watchStream, liveFailed, bridge_config, relayer, pending_mirrors, processed_deposits, processedDeposits,
                  depositQueue, indexer, sweepTodo,
                  crashes, offered, everStored >>

Attempt(s, outcome) ==
  /\ s \in DOMAIN workers
  /\ workers[s].pc = "attempt"
  /\ LET w == workers[s] IN
     IF outcome = "build" \/ ~ netAmountOk(w.deposit) \/ outcome = "submit"
       THEN /\ workers' = [workers EXCEPT ![s] = Failing(w)]
            /\ UNCHANGED destLedger
       ELSE \E k \in 1..MaxMirrorTxs : \E toHash \in {k, MaxMirrorTxs + 1} :
              /\ MirrorTx(w.deposit, k) \notin destLedger
              /\ \A j \in 1..(k - 1) : MirrorTx(w.deposit, j) \in destLedger
              /\ destLedger' = destLedger \cup {MirrorTx(w.deposit, k)}
              /\ workers' = [workers EXCEPT ![s] =
                               [w EXCEPT !.pc = "confirm_add", !.hash = toHash]]
  /\ UNCHANGED << watchStream, liveFailed, bridge_config, relayer, pending_mirrors, processed_deposits, processedDeposits,
                  depositQueue, indexer, sweepTodo,
                  crashes, offered, everStored >>

\* The slot s is freed; a sweep slot is refilled from the rest of the sweep
\* (Effect.forEach with concurrency: SweepConcurrency).
Release(s) ==
  LET rest == [ t \in DOMAIN workers \ {s} |-> workers[t] ] IN
  IF s # LiveSlot /\ sweepTodo # << >>
    THEN /\ workers' = [ t \in DOMAIN rest \cup {Head(sweepTodo).transactionHash} |->
                           IF t \in DOMAIN rest THEN rest[t]
                           ELSE NewWorker(Head(sweepTodo)) ]
         /\ sweepTodo' = Tail(sweepTodo)
    ELSE /\ workers' = rest
         /\ UNCHANGED sweepTodo

\* updateMirrorStatus(d, hash, "CONFIRMED"): database.addProcessedDeposit.
ConfirmAdd(s, ok) ==
  /\ s \in DOMAIN workers
  /\ workers[s].pc = "confirm_add"
  /\ LET w == workers[s]
         d == w.deposit.transactionHash IN
       IF ok
         THEN /\ processed_deposits' = addProcessedDeposit(processed_deposits,
                    [transactionHash |-> d, mirrorTxHash |-> << d, w.hash >>,
                     status |-> CONFIRMED])
              /\ workers' = [workers EXCEPT ![s] =
                    [w EXCEPT !.pc = "confirm_remove",
                              !.hadPending = (d \in DOMAIN pending_mirrors)]]
         ELSE /\ workers' = [workers EXCEPT ![s] =
                    [Failing(w) EXCEPT
                              !.hadPending = (d \in DOMAIN pending_mirrors)]]
              /\ UNCHANGED processed_deposits
  /\ UNCHANGED << watchStream, liveFailed, bridge_config, relayer, pending_mirrors, destLedger, processedDeposits, depositQueue,
                  indexer, sweepTodo, crashes,
                  offered, everStored >>

\* updateMirrorStatus(d, hash, "CONFIRMED"): database.removePendingMirror,
\* then return true.
ConfirmRemove(s, ok) ==
  /\ s \in DOMAIN workers
  /\ workers[s].pc = "confirm_remove"
  /\ LET w == workers[s]
         d == w.deposit.transactionHash IN
       IF ok
         THEN /\ pending_mirrors' = removePendingMirror(pending_mirrors, d)
              /\ workers' = [workers EXCEPT ![s] =
                    [w EXCEPT !.pc = "confirm_return", !.result = "true"]]
         ELSE /\ workers' = [workers EXCEPT ![s] = Failing(w)]
              /\ UNCHANGED pending_mirrors
  /\ UNCHANGED << watchStream, liveFailed, bridge_config, relayer, processed_deposits, destLedger, processedDeposits,
                  depositQueue, indexer, sweepTodo,
                  crashes, offered, everStored >>

\* processDeposit after the CONFIRMED update: if (updateResult) ... else fail.
ConfirmReturn(s) ==
  /\ s \in DOMAIN workers
  /\ workers[s].pc = "confirm_return"
  /\ IF workers[s].result = "true"
       THEN Release(s)
       ELSE /\ workers' = [workers EXCEPT ![s] = Failing(workers[s])]
            /\ UNCHANGED sweepTodo
  /\ UNCHANGED << watchStream, liveFailed, bridge_config, relayer, durable, processedDeposits, depositQueue, indexer,
                  crashes, offered, everStored >>

\* updateMirrorStatus(d, "", "FAILED", message): database.loadBridgeState and
\* the search for the pending mirror.  A failed read is answered with the
\* empty state by loadBridgeState.
FailLoad(s, ok) ==
  /\ s \in DOMAIN workers
  /\ workers[s].pc = "fail_load"
  /\ LET w == workers[s]
         d == w.deposit.transactionHash
         exists == d \in readablePendingMirrors(pending_mirrors) IN
       IF ok /\ exists
         THEN /\ pending_mirrors[d].retryCount + 1 <= MaxRetryCount
              /\ workers' = [workers EXCEPT ![s] =
                    [w EXCEPT !.pc = "fail_update", !.hadPending = exists,
                              !.result = "none",
                              !.newRetryCount = pending_mirrors[d].retryCount + 1]]
         ELSE workers' = [workers EXCEPT ![s] =
                    [w EXCEPT !.pc = "fail_return", !.hadPending = exists,
                              !.result = "false", !.newRetryCount = 0]]
  /\ UNCHANGED << watchStream, liveFailed, bridge_config, relayer, durable, processedDeposits, depositQueue, indexer, sweepTodo,
                  crashes, offered, everStored >>

\* updateMirrorStatus(d, "", "FAILED", message): database.updatePendingMirror,
\* then return true.
FailUpdate(s, ok) ==
  /\ s \in DOMAIN workers
  /\ workers[s].pc = "fail_update"
  /\ LET w == workers[s]
         d == w.deposit.transactionHash IN
       IF ok
         THEN /\ pending_mirrors' = updatePendingMirror(pending_mirrors, d,
                                       w.newRetryCount, "message")
              /\ workers' = [workers EXCEPT ![s] =
                    [w EXCEPT !.pc = "fail_return", !.result = "true"]]
         ELSE /\ workers' = [workers EXCEPT ![s] =
                    [w EXCEPT !.pc = "fail_return", !.result = "error"]]
              /\ UNCHANGED pending_mirrors
  /\ UNCHANGED << watchStream, liveFailed, bridge_config, relayer, processed_deposits, destLedger, processedDeposits,
                  depositQueue, indexer, sweepTodo,
                  crashes, offered, everStored >>

FailReturnEndingSweep(s) ==
  /\ s \in DOMAIN workers
  /\ workers[s].pc = "fail_return"
  /\ IF s = LiveSlot
       THEN Release(s)
       ELSE /\ workers' = [ t \in DOMAIN workers \cap {LiveSlot, s} |->
                              IF t = s THEN [workers[s] EXCEPT !.pc = "interrupted"]
                              ELSE workers[t] ]
            /\ sweepTodo' = << >>
  /\ liveFailed' = (liveFailed \/ s = LiveSlot)
  /\ UNCHANGED << watchStream, bridge_config, relayer, durable, processedDeposits, depositQueue, indexer, crashes,
                  offered, everStored >>

\* The handler of Effect.catchAll ends after the FAILED update: it returns
\* the value Effect.fail(error) without running it, so processDeposit succeeds
\* and its caller (the subscription stream or Effect.forEach) goes on.
FailReturn(s) ==
  /\ s \in DOMAIN workers
  /\ workers[s].pc = "fail_return"
  /\ Release(s)
  /\ liveFailed' = (liveFailed \/ s = LiveSlot)
  /\ UNCHANGED << watchStream, bridge_config, relayer, durable, processedDeposits, depositQueue, indexer, crashes,
                  offered, everStored >>

RECURSIVE Orders(_)
Orders(S) ==
  IF S = {} THEN { << >> }
  ELSE UNION { { << x >> \o o : o \in Orders(S \ {x}) } : x \in S }

Min(a, b) == IF a < b THEN a ELSE b

\* relayer.getPendingDepositsForRetry(maxRetries): only the rows that have
\* already failed at least once and fewer than maxRetries times.
getPendingDepositsForRetry ==
  LET rows == { h \in readablePendingMirrors(pending_mirrors) :
                  /\ pending_mirrors[h].retryCount > 0
                  /\ pending_mirrors[h].retryCount < retryAttempts } IN
  { [ i \in 1..Len(o) |-> deserializeWithBigInt(pending_mirrors[o[i]].deposit_data) ] : o \in Orders(rows) }

\* relayer.getPendingDeposits: the deposits of the rows of pending_mirrors, in
\* the order the SELECT returns them (no ORDER BY).
getPendingDeposits ==
  { [ i \in 1..Len(o) |-> deserializeWithBigInt(pending_mirrors[o[i]].deposit_data) ] :
      o \in Orders(readablePendingMirrors(pending_mirrors)) }

SweepStartOnSchedule ==
  /\ \E pendingDeposits \in getPendingDeposits :
       LET n == Min(SweepConcurrency, Len(pendingDeposits))
           started == { pendingDeposits[i] : i \in 1..n } IN
       /\ Len(pendingDeposits) > 0
       /\ workers' = [ t \in DOMAIN workers \cup
                              { e.transactionHash : e \in started } |->
                         IF t \in DOMAIN workers THEN workers[t]
                         ELSE NewWorker(CHOOSE e \in started :
                                          e.transactionHash = t) ]
       /\ sweepTodo' = SubSeq(pendingDeposits, n + 1, Len(pendingDeposits))
  /\ UNCHANGED << watchStream, liveFailed, bridge_config, relayer, durable, processedDeposits, depositQueue, indexer,
                  crashes, offered, everStored >>

\* checkPendingDeposits: one run of the periodic sweep.  It starts when the
\* previous run has ended (Effect.repeat); with no pending deposit, or a
\* failed read, the run does nothing.
SweepStart ==
  /\ SweepSlots = {}
  /\ sweepTodo = << >>
  /\ \E pendingDeposits \in getPendingDeposits :
       LET n == Min(SweepConcurrency, Len(pendingDeposits))
           started == { pendingDeposits[i] : i \in 1..n } IN
       /\ Len(pendingDeposits) > 0
       /\ workers' = [ t \in DOMAIN workers \cup
                              { e.transactionHash : e \in started } |->
                         IF t \in DOMAIN workers THEN workers[t]
                         ELSE NewWorker(CHOOSE e \in started :
                                          e.transactionHash = t) ]
       /\ sweepTodo' = SubSeq(pendingDeposits, n + 1, Len(pendingDeposits))
  /\ UNCHANGED << watchStream, liveFailed, bridge_config, relayer, durable, processedDeposits, depositQueue, indexer,
                  crashes, offered, everStored >>

\* ------------------------------------------------------ the bridge state
EmptyBridgeState ==
  [processedDeposits |-> {}, pendingMirrors |-> {},
   lastProcessedSlot |-> 0, lastProcessedBlockHash |-> "genesis"]

\* loadBridgeState: the rows as ProcessedDeposit and PendingMirror.
processedDepositOfRow(h, row) ==
  [transactionHash |-> h, mirrorTxHash |-> row.mirrorTxHash,
   status |-> row.status]

pendingMirrorOfRowWithoutRetries(h, row) ==
  [depositTxHash |-> h, deposit |-> deserializeWithBigInt(row.deposit_data),
   retryCount |-> 0, errorMessage |-> orUndefined(row.errorMessage)]

pendingMirrorOfRow(h, row) ==
  [depositTxHash |-> h, deposit |-> deserializeWithBigInt(row.deposit_data),
   retryCount |-> row.retryCount,
   errorMessage |-> orUndefined(row.errorMessage)]

\* database.loadBridgeState; a read that fails (ok = FALSE) or a deposit_data
\* that does not parse is answered with the empty state (its catch).
loadBridgeState(ok) ==
  IF ok /\ readablePendingMirrors(pending_mirrors) = DOMAIN pending_mirrors
    THEN [processedDeposits |->
            { processedDepositOfRow(h, processed_deposits[h]) :
                h \in DOMAIN processed_deposits },
          pendingMirrors |->
            { pendingMirrorOfRow(h, pending_mirrors[h]) :
                h \in DOMAIN pending_mirrors },
          lastProcessedSlot |->
            BigInt(IF "lastProcessedSlot" \in DOMAIN bridge_config
                     THEN bridge_config["lastProcessedSlot"]
                     ELSE toString(0)),
          lastProcessedBlockHash |->
            IF "lastProcessedBlockHash" \in DOMAIN bridge_config
              THEN IF bridge_config["lastProcessedBlockHash"] = ""
                     THEN "genesis"
                     ELSE bridge_config["lastProcessedBlockHash"]
              ELSE "genesis"]
    ELSE EmptyBridgeState

\* database.saveBridgeState: its three loops of INSERT OR REPLACE.
RECURSIVE saveProcessedDeposits(_, _)
saveProcessedDeposits(tbl, deposits) ==
  IF deposits = {} THEN tbl
  ELSE LET deposit == CHOOSE x \in deposits : TRUE IN
       saveProcessedDeposits(addProcessedDeposit(tbl, deposit),
                             deposits \ {deposit})

RECURSIVE savePendingMirrors(_, _)
savePendingMirrors(tbl, pendings) ==
  IF pendings = {} THEN tbl
  ELSE LET pending == CHOOSE x \in pendings : TRUE IN
       savePendingMirrors(addPendingMirror(tbl, pending), pendings \ {pending})

saveBridgeConfig(tbl, keys, state) ==
  [ key \in DOMAIN tbl \cup keys |->
      IF key \notin keys THEN tbl[key]
      ELSE IF key = "lastProcessedSlot"
        THEN toString(state.lastProcessedSlot)
        ELSE state.lastProcessedBlockHash ]

RelayerNotBooted ==
  [loaded |-> FALSE, readOk |-> FALSE, bridgeState |-> EmptyBridgeState,
   persist |-> "idle", snapshot |-> EmptyBridgeState, oldDeposits |-> 0]

\* The Relayer after makeRelayerService over an empty store.
RelayerBooted ==
  [RelayerNotBooted EXCEPT !.loaded = TRUE, !.readOk = TRUE]

\* makeRelayerService: database.initialize() (CREATE TABLE IF NOT EXISTS)
\* and database.loadBridgeState(); the loaded state is logged.
Boot(ok) ==
  /\ relayer' = [RelayerNotBooted EXCEPT !.loaded = TRUE, !.readOk = ok,
                                         !.bridgeState = loadBridgeState(ok)]
  /\ UNCHANGED << watchStream, liveFailed, durable, bridge_config, processedDeposits, depositQueue,
                  indexer, workers, sweepTodo,
                  crashes, offered, everStored >>

\* persistState: database.loadBridgeState().
PersistLoad(ok) ==
  /\ relayer.loaded
  /\ relayer.persist = "idle"
  /\ relayer' = [relayer EXCEPT !.persist = "save",
                                !.snapshot = loadBridgeState(ok)]
  /\ UNCHANGED << watchStream, liveFailed, durable, bridge_config, processedDeposits, depositQueue,
                  indexer, workers, sweepTodo,
                  crashes, offered, everStored >>

\* The statements of saveBridgeState run one after the other: the loop over
\* the processed deposits, the loop over the pending mirrors, the two rows
\* of bridge_config.  written is how many of these four have run when the
\* call ends (4: all; fewer: a statement failed).
SaveSteps == 0..4

\* persistState: database.saveBridgeState(bridgeState).
PersistSave(written) ==
  /\ relayer.persist = "save"
  /\ processed_deposits' =
       IF written >= 1
         THEN saveProcessedDeposits(processed_deposits,
                                    relayer.snapshot.processedDeposits)
         ELSE processed_deposits
  /\ pending_mirrors' =
       IF written >= 2
         THEN savePendingMirrors(pending_mirrors, relayer.snapshot.pendingMirrors)
         ELSE pending_mirrors
  /\ bridge_config' =
       saveBridgeConfig(bridge_config,
                        (IF written >= 3 THEN {"lastProcessedSlot"} ELSE {}) \cup
                        (IF written >= 4 THEN {"lastProcessedBlockHash"} ELSE {}),
                        relayer.snapshot)
  /\ relayer' = [relayer EXCEPT !.persist = "idle",
                                !.snapshot = EmptyBridgeState]
  /\ UNCHANGED << watchStream, liveFailed, destLedger, processedDeposits, depositQueue, indexer,
                  workers, sweepTodo, crashes,
                  offered, everStored >>

CleanupOldDepositsDeleting(ok, old) ==
  /\ relayer.loaded
  /\ old \subseteq { deposit.transactionHash :
                        deposit \in loadBridgeState(ok).processedDeposits }
  /\ relayer' = [relayer EXCEPT !.oldDeposits = Cardinality(old)]
  /\ processed_deposits' =
       [ h \in DOMAIN processed_deposits \ old |-> processed_deposits[h] ]
  /\ UNCHANGED << watchStream, liveFailed, pending_mirrors, destLedger, bridge_config,
                  processedDeposits, depositQueue, indexer, workers, sweepTodo,
                  crashes, offered, everStored >>

\* cleanupOldDeposits(maxAgeMs): database.loadBridgeState(), then the count
\* of the processed deposits with processedAt < Date.now() - maxAgeMs.  old
\* is the set of these deposits: it depends on the clock and on maxAgeMs.
\* The call returns the count and runs no statement on the store.
CleanupOldDeposits(ok, old) ==
  /\ relayer.loaded
  /\ old \subseteq { deposit.transactionHash :
                        deposit \in loadBridgeState(ok).processedDeposits }
  /\ relayer' = [relayer EXCEPT !.oldDeposits = Cardinality(old)]
  /\ UNCHANGED << watchStream, liveFailed, durable, bridge_config, processedDeposits,
                  depositQueue, indexer, workers, sweepTodo,
                  crashes, offered, everStored >>

\* The process exits and is started again: the store and the ledger stay.
Crash ==
  /\ crashes < MaxCrashes
  /\ crashes' = crashes + 1
  /\ processedDeposits' = {}
  /\ depositQueue' = << >>
  /\ indexer' = IndexerIdle
  /\ workers' = EmptyTable
  /\ sweepTodo' = << >>
  /\ offered' = {}
  /\ liveFailed' = FALSE
  /\ watchStream' = NoTxEvents
  /\ UNCHANGED << bridge_config, relayer, durable, everStored >>

Init ==
  /\ pending_mirrors = EmptyTable
  /\ processed_deposits = EmptyTable
  /\ destLedger = {}
  /\ processedDeposits = {}
  /\ depositQueue = << >>
  /\ indexer = IndexerIdle
  /\ workers = EmptyTable
  /\ sweepTodo = << >>
  /\ crashes = 0
  /\ offered = {}
  /\ liveFailed = FALSE
  /\ everStored = {}
  /\ bridge_config = EmptyConfig
  /\ relayer = RelayerBooted
  /\ watchStream = NoTxEvents

\* The stores the bridge leaves behind for a boot: any of the deposits of
\* PairEvents pending, with any number of failed attempts, and d1 processed
\* or not.
eventOf(h) == CHOOSE e \in PairEvents : e.transactionHash = h

InitStore ==
  /\ \E hs \in SUBSET { e.transactionHash : e \in PairEvents } :
       \E retries \in [hs -> 0..MaxRetryCount] :
         pending_mirrors =
           [ h \in hs |->
               [deposit_data |-> serializeWithBigInt(eventOf(h)),
                retryCount |-> retries[h],
                errorMessage |-> IF retries[h] = 0 THEN "null" ELSE "message"] ]
  /\ \E hs \in SUBSET {"d1"} :
       /\ processed_deposits =
            [ h \in hs |-> [mirrorTxHash |-> << h, 1 >>, status |-> CONFIRMED] ]
       /\ destLedger = { MirrorTx(eventOf(h), 1) : h \in hs }
  /\ processedDeposits = {}
  /\ depositQueue = << >>
  /\ indexer = IndexerIdle
  /\ workers = EmptyTable
  /\ sweepTodo = << >>
  /\ crashes = 0
  /\ offered = {}
  /\ liveFailed = FALSE
  /\ everStored = {}
  /\ bridge_config = EmptyConfig
  /\ relayer = RelayerNotBooted
  /\ watchStream = NoTxEvents

\* Boots and persistState calls over such a store, with nothing else
\* running.
NextStore ==
  \/ \E ok \in BOOLEAN : Boot(ok)
  \/ \E ok \in BOOLEAN : PersistLoad(ok)
  \/ \E written \in SaveSteps : PersistSave(written)

SpecStore == InitStore /\ [][NextStore]_vars

\* Two deposits in the bridge at once, a store that does not fail and a
\* process that does not exit.
NextPair ==
  \/ \E e \in PairEvents : Deliver(e)
  \/ PublishStore(TRUE)
  \/ PublishOffer
  \/ LiveTake
  \/ SweepStart
  \/ \E s \in DOMAIN workers, outcome \in AttemptOutcomes : Attempt(s, outcome)
  \/ \E s \in DOMAIN workers : ConfirmAdd(s, TRUE)
  \/ \E s \in DOMAIN workers : ConfirmRemove(s, TRUE)
  \/ \E s \in DOMAIN workers : ConfirmReturn(s)
  \/ \E s \in DOMAIN workers : FailLoad(s, TRUE)
  \/ \E s \in DOMAIN workers : FailUpdate(s, TRUE)
  \/ \E s \in DOMAIN workers : FailReturn(s)

SpecPair == Init /\ [][NextPair]_vars

\* One deposit in the bridge; every store statement may fail (ok = FALSE)
\* and the process may exit.
Next ==
  \/ \E e \in SourceEvents : Deliver(e)
  \/ \E ok \in BOOLEAN : PublishStore(ok)
  \/ PublishOffer
  \/ LiveTake
  \/ SweepStart
  \/ \E s \in DOMAIN workers, outcome \in AttemptOutcomes : Attempt(s, outcome)
  \/ \E s \in DOMAIN workers, ok \in BOOLEAN : ConfirmAdd(s, ok)
  \/ \E s \in DOMAIN workers, ok \in BOOLEAN : ConfirmRemove(s, ok)
  \/ \E s \in DOMAIN workers : ConfirmReturn(s)
  \/ \E s \in DOMAIN workers, ok \in BOOLEAN : FailLoad(s, ok)
  \/ \E s \in DOMAIN workers, ok \in BOOLEAN : FailUpdate(s, ok)
  \/ \E s \in DOMAIN workers : FailReturn(s)
  \/ Crash

Spec == Init /\ [][Next]_vars

\* The Mirror fibers: the periodic sweep (Schedule.fixed) and the executions
\* of processDeposit, with a store and a destination that answer.
MirrorStep ==
  \/ LiveTake
  \/ SweepStart
  \/ \E s \in DOMAIN workers : Attempt(s, "accept")
  \/ \E s \in DOMAIN workers : ConfirmAdd(s, TRUE)
  \/ \E s \in DOMAIN workers : ConfirmRemove(s, TRUE)
  \/ \E s \in DOMAIN workers : ConfirmReturn(s)

NextFair ==
  \/ \E e \in SourceEvents : Deliver(e)
  \/ PublishStore(TRUE)
  \/ PublishOffer
  \/ MirrorStep
  \/ Crash

\* The deposit d1 with any of its metadata texts, a store and a destination
\* that answer and a process that does not exit.
NextBlob ==
  \/ \E e \in BlobEvents : Deliver(e)
  \/ PublishStore(TRUE)
  \/ PublishOffer
  \/ MirrorStep

SpecBlob == Init /\ [][NextBlob]_vars

\* A source stream that may fail, with a store and a destination that
\* answer and a process that does not exit.
NextStream ==
  \/ \E e \in SourceEvents : Deliver(e)
  \/ PublishStore(TRUE)
  \/ PublishOffer
  \/ MirrorStep
  \/ StreamError
  \/ StreamHandlerEnd

SpecStream == Init /\ [][NextStream]_vars

\* A boot over a store in which an earlier boot has left the three deposits
\* of PoolEvents pending.
InitPool ==
  /\ pending_mirrors =
       [ h \in { e.transactionHash : e \in PoolEvents } |->
           [deposit_data |->
              serializeWithBigInt(CHOOSE e \in PoolEvents : e.transactionHash = h),
            retryCount |-> 0, errorMessage |-> "null"] ]
  /\ processed_deposits = EmptyTable
  /\ destLedger = {}
  /\ processedDeposits = {}
  /\ depositQueue = << >>
  /\ indexer = IndexerIdle
  /\ workers = EmptyTable
  /\ sweepTodo = << >>
  /\ crashes = 0
  /\ offered = {}
  /\ liveFailed = FALSE
  /\ everStored = PoolEvents
  /\ bridge_config = EmptyConfig
  /\ relayer = RelayerBooted
  /\ watchStream = NoTxEvents

\* The source delivers d1 again in this boot; the store and the destination
\* answer.
NextPool ==
  \/ \E e \in { x \in PoolEvents : x.transactionHash = "d1" } : Deliver(e)
  \/ PublishStore(TRUE)
  \/ PublishOffer
  \/ MirrorStep

SpecPool == InitPool /\ [][NextPool]_vars

\* The fiber of the subscription: the destination may refuse the submission
\* of its first attempt of a boot.
LiveStep ==
  \/ LiveTake
  \/ \E outcome \in (IF liveFailed THEN {"accept"} ELSE {"submit", "accept"}) :
       Attempt(LiveSlot, outcome)
  \/ ConfirmAdd(LiveSlot, TRUE)
  \/ ConfirmRemove(LiveSlot, TRUE)
  \/ ConfirmReturn(LiveSlot)
  \/ FailLoad(LiveSlot, TRUE)
  \/ FailUpdate(LiveSlot, TRUE)
  \/ FailReturn(LiveSlot)

\* The fiber of the periodic sweep and the executions it starts.
SweepStep ==
  \/ SweepStart
  \/ \E s \in SweepSlots : Attempt(s, "accept")
  \/ \E s \in SweepSlots : ConfirmAdd(s, TRUE)
  \/ \E s \in SweepSlots : ConfirmRemove(s, TRUE)
  \/ \E s \in SweepSlots : ConfirmReturn(s)

NextLater ==
  \/ \E e \in LaterEvents : Deliver(e)
  \/ PublishStore(TRUE)
  \/ PublishOffer
  \/ LiveStep
  \/ SweepStep

\* One boot with a store that answers; the runtime runs each of the two
\* Mirror fibers whenever it can take a step.
SpecLater ==
  Init /\ [][NextLater]_vars /\ WF_vars(LiveStep) /\ WF_vars(SweepStep)

\* The Effect runtime runs every fiber that can take a step: the Mirror
\* fibers do not wait forever.  Nothing is assumed of the source adapter.
SpecFair == Init /\ [][NextFair]_vars /\ WF_vars(MirrorStep)

\* The Indexer on the stream of the source adapter, with a store that
\* answers.
NextWatch ==
  \/ \E event \in TxEvents : WatchEvent(event)
  \/ Take
  \/ PublishStore(TRUE)
  \/ PublishOffer
  \/ StreamError
  \/ StreamHandlerEnd

SpecWatch == Init /\ [][NextWatch]_vars

\* The bridge with the maintenance calls of the Relayer (persistState,
\* cleanupOldDeposits) running beside the Indexer and the Mirror: one
\* deposit, a process that does not exit; the reads of the maintenance
\* calls may fail.
NextUpkeep ==
  \/ \E e \in { x \in LaterEvents : x.transactionHash = "d1" } : Deliver(e)
  \/ PublishStore(TRUE)
  \/ PublishOffer
  \/ LiveTake
  \/ SweepStart
  \/ \E s \in DOMAIN workers, outcome \in AttemptOutcomes : Attempt(s, outcome)
  \/ \E s \in DOMAIN workers : ConfirmAdd(s, TRUE)
  \/ \E s \in DOMAIN workers : ConfirmRemove(s, TRUE)
  \/ \E s \in DOMAIN workers : ConfirmReturn(s)
  \/ \E s \in DOMAIN workers : FailLoad(s, TRUE)
  \/ \E s \in DOMAIN workers : FailUpdate(s, TRUE)
  \/ \E s \in DOMAIN workers : FailReturn(s)
  \/ \E ok \in BOOLEAN : PersistLoad(ok)
  \/ PersistSave(4)
  \/ \E ok \in BOOLEAN, old \in SUBSET DOMAIN processed_deposits :
       CleanupOldDeposits(ok, old)

SpecUpkeep == Init /\ [][NextUpkeep]_vars

\* A boot over a store in which an earlier boot has left four deposits
\* pending: d2, whose net amount createMirrorTransaction refuses at every
\* attempt, and the three deposits of PoolEvents.
BlockedEvents ==
  PoolEvents \cup { e \in PairEvents : e.transactionHash = "d2" }

InitBlocked ==
  /\ pending_mirrors =
       [ h \in { e.transactionHash : e \in BlockedEvents } |->
           [deposit_data |->
              serializeWithBigInt(CHOOSE e \in BlockedEvents : e.transactionHash = h),
            retryCount |-> 0, errorMessage |-> "null"] ]
  /\ processed_deposits = EmptyTable
  /\ destLedger = {}
  /\ processedDeposits = {}
  /\ depositQueue = << >>
  /\ indexer = IndexerIdle
  /\ workers = EmptyTable
  /\ sweepTodo = << >>
  /\ crashes = 0
  /\ offered = {}
  /\ liveFailed = FALSE
  /\ everStored = BlockedEvents
  /\ bridge_config = EmptyConfig
  /\ relayer = RelayerBooted
  /\ watchStream = NoTxEvents

\* The fiber of the periodic sweep and its executions, with a store that
\* answers and a destination that accepts what is submitted.
BlockedStep ==
  \/ SweepStart
  \/ \E s \in SweepSlots : Attempt(s, "accept")
  \/ \E s \in SweepSlots : ConfirmAdd(s, TRUE)
  \/ \E s \in SweepSlots : ConfirmRemove(s, TRUE)
  \/ \E s \in SweepSlots : ConfirmReturn(s)
  \/ \E s \in SweepSlots : FailLoad(s, TRUE)
  \/ \E s \in SweepSlots : FailUpdate(s, TRUE)
  \/ \E s \in SweepSlots : FailReturn(s)

\* The runtime runs the sweep fiber whenever it can take a step.
SpecBlocked == InitBlocked /\ [][BlockedStep]_vars /\ WF_vars(BlockedStep)

\* ------------------------------------------------------------ properties

\* C1: in every reachable state of the store no depositTxHash has both a
\* PendingMirror row and a ProcessedDeposit row.
C1_PendingXorProcessed ==
  \A d \in TxHashes : ~ (InPending(d) /\ InProcessed(d))

\* C2: for every deposit txHash the destination ledger accepts at most one
\* mirror transaction, whatever the interleaving of subscription and sweep.
C2_AtMostOneSubmission ==
  \A d \in TxHashes : Cardinality(Submissions(d)) <= 1

\* C3: the Confirmed update is one atomic durable step: no step takes a
\* deposit that has only its PendingMirror to a store holding both rows or
\* neither row.
C3_ConfirmedAtomic ==
  [][ \A d \in TxHashes :
        (d \in DOMAIN pending_mirrors /\ d \notin DOMAIN processed_deposits)
          => ((d \in DOMAIN pending_mirrors') # (d \in DOMAIN processed_deposits')) ]_vars

\* C4: a deposit that has reached its ProcessedDeposit (and has no
\* PendingMirror) never gets a PendingMirror again, also when the source
\* re-delivers it after a restart.
C4_ProcessedNeverPendingAgain ==
  [][ \A d \in TxHashes :
        (d \in DOMAIN processed_deposits /\ d \notin DOMAIN pending_mirrors)
          => d \notin DOMAIN pending_mirrors' ]_vars

\* C5: every PendingMirror satisfies 0 <= retryCount <= retryAttempts.
C5_RetryCountWithinCap ==
  \A d \in DOMAIN pending_mirrors :
    /\ 0 <= pending_mirrors[d].retryCount
    /\ pending_mirrors[d].retryCount <= retryAttempts

\* C6: when a Failed update has written a retryCount >= retryAttempts and
\* returns, the PendingMirror is gone and a ProcessedDeposit with status
\* Failed is there.
C6_FailedPromotesAtCap ==
  \A s \in DOMAIN workers :
    LET w == workers[s]
        d == w.deposit.transactionHash IN
    (w.pc = "fail_return" /\ w.result = "true"
       /\ w.newRetryCount >= retryAttempts)
      => /\ ~ InPending(d)
         /\ InProcessed(d)
         /\ processed_deposits[d].status = FAILED

\* C7: once the retryCount of a deposit has reached retryAttempts, no step
\* starts a further mirror attempt for it.
C7_NoAttemptAfterCap ==
  [][ \A d \in DOMAIN pending_mirrors :
        pending_mirrors[d].retryCount >= retryAttempts
          => \A s \in DOMAIN workers' :
               (s \notin DOMAIN workers)
                 => workers'[s].deposit.transactionHash # d ]_vars

\* C8: updateMirrorStatus returns true exactly when a PendingMirror for the
\* deposit existed when the call was made, for Confirmed and for Failed.
C8_ReturnsTrueIffPendingExisted ==
  \A s \in DOMAIN workers :
    LET w == workers[s] IN
    (w.pc \in {"confirm_return", "fail_return"} /\ w.result \in {"true", "false"})
      => ((w.result = "true") <=> w.hadPending)

\* C9: an updateMirrorStatus call made for a deposit without PendingMirror
\* row leaves processed_deposits and pending_mirrors unchanged.
C9_NoOpWithoutPending ==
  [][ \A s \in DOMAIN workers :
        ( /\ workers[s].pc \in {"confirm_add", "fail_load"}
          /\ workers[s].deposit.transactionHash \notin DOMAIN pending_mirrors
          /\ s \in DOMAIN workers'
          /\ workers'[s].pc # workers[s].pc )
          => /\ processed_deposits' = processed_deposits
             /\ pending_mirrors' = pending_mirrors ]_vars

\* C10: an event is offered to the subscriber channel only after its
\* PendingMirror was stored; a publishDeposit whose store write failed ends
\* with a RelayerError and its event is not offered.
C10_StoredBeforeOffered ==
  /\ offered \subseteq everStored
  /\ \A i \in 1..Len(depositQueue) : depositQueue[i] \in everStored
  /\ indexer.error = "RelayerError"
       => /\ indexer.pc = "failed"
          /\ indexer.event \notin offered

C10_Witness ==
  /\ depositQueue # << >>
  /\ Head(depositQueue) \in offered
  /\ InPending(Head(depositQueue).transactionHash)

\* C11: when the Relayer has started after a process exit, every
\* PendingMirror of the store is on the subscribeToDeposits stream (the
\* depositQueue) of the new boot.
C11_PendingEmittedOnBoot ==
  [][ crashes' = crashes + 1
        => \A d \in DOMAIN pending_mirrors' :
             \E i \in 1..Len(depositQueue') :
               depositQueue'[i].transactionHash = d ]_vars

\* C12: when the process has restarted for the last time with a PendingMirror
\* in the store and no mirror transaction submitted for it, then - the
\* Mirror fibers being scheduled and the destination accepting - the deposit
\* eventually has a ProcessedDeposit with status CONFIRMED and no
\* PendingMirror.
C12_RestartEventuallyConfirmed ==
  \A d \in TxHashes :
    (crashes = MaxCrashes /\ InPending(d) /\ Submissions(d) = {})
      ~> ( /\ InProcessed(d)
           /\ processed_deposits[d].status = CONFIRMED
           /\ ~ InPending(d) )

\* The Indexer of the last boot has not seen d1: its PendingMirror was stored
\* before the exit, and the sweep alone has confirmed it.
C12_Witness ==
  /\ crashes = MaxCrashes
  /\ processedDeposits = {}
  /\ InProcessed("d1")
  /\ processed_deposits["d1"].status = CONFIRMED
  /\ ~ InPending("d1")
  /\ Cardinality(Submissions("d1")) = 1

\* C13: whatever the source delivers again, the store never holds more than
\* one PendingMirror row for a txHash, and the Indexer starts publishDeposit
\* only for an event it has not already published in this boot.
C13_OneRowOnePublish ==
  /\ [] ( \A d \in TxHashes :
            Cardinality({ h \in DOMAIN pending_mirrors :
                            pending_mirrors[h].deposit_data.transactionHash = d }) <= 1 )
  /\ [][ (indexer.pc = "watch" /\ indexer'.pc = "publish_store")
           => indexer'.event \notin offered ]_vars

\* d1 is published in the boot after the exit over a store that already
\* holds its rows, and the Indexer, back on the stream, has it in its set.
C13_Witness ==
  /\ crashes = 1
  /\ indexer.pc = "watch"
  /\ "d1" \in processedDeposits
  /\ \E e \in offered : e.transactionHash = "d1"
  /\ InProcessed("d1")
  /\ DOMAIN pending_mirrors = {"d1"}

\* The events that validateDeposit has to reject.
C14_Rejected ==
  { e \in SourceEvents \cup PairEvents :
      \/ e.amount < minDepositAmount
      \/ e.amount > maxTransferAmount
      \/ e.assetType \notin allowedAssets }

\* C14: an event below the minimum, above the maximum or of an asset that is
\* not allowed never gets a PendingMirror, is never offered to the Mirror
\* and never gets a mirror transaction; every DepositEvent in the store is
\* within the bounds and of an allowed asset.
C14_OnlyValidDepositsStored ==
  /\ \A e \in C14_Rejected :
       /\ ~ InPending(e.transactionHash)
       /\ e \notin everStored
       /\ e \notin offered
       /\ Submissions(e.transactionHash) = {}
       /\ \A s \in DOMAIN workers : workers[s].deposit # e
  /\ \A h \in DOMAIN pending_mirrors :
       LET deposit == deserializeWithBigInt(pending_mirrors[h].deposit_data) IN
       /\ minDepositAmount <= deposit.amount
       /\ deposit.amount <= maxTransferAmount
       /\ deposit.assetType \in allowedAssets

\* A rejected event has been delivered after a valid deposit was stored.
C14_Witness ==
  /\ indexer.error = "validation"
  /\ indexer.event \in C14_Rejected
  /\ InPending("d1")

\* C15: a validation failure is absorbed: it never leaves the Indexer with
\* its deposit stream ended and indexer.run failed.
C15_ValidationAbsorbed ==
  indexer.error = "validation" => indexer.pc # "failed"

C17_MirrorTxShape ==
  [][ \A s \in DOMAIN workers :
        ( /\ workers[s].pc = "attempt"
          /\ s \in DOMAIN workers'
          /\ workers'[s].pc = "confirm_add" )
          => \E t \in destLedger' \ destLedger :
               LET deposit == workers[s].deposit IN
               /\ destLedger' = destLedger \cup {t}
               /\ Len(t.outputs) = 1
               /\ t.outputs[1].address = deposit.senderAddress
               /\ t.outputs[1].lovelace = deposit.amount - feeAmount
               /\ t.metadata.label = metadataLabel
               /\ t.metadata.originalTx = deposit.transactionHash ]_vars

\* The mirror transaction of d1 (5,000,000 lovelace) has been submitted: it
\* pays 4,000,000 to the sender of d1.
C17_Witness ==
  /\ \E s \in DOMAIN workers :
       workers[s].pc = "confirm_add" /\ workers[s].deposit.transactionHash = "d1"
  /\ \E t \in destLedger :
       /\ t.outputs = << [address |-> "addr_d1", lovelace |-> 4000000] >>
       /\ t.metadata.originalTx = "d1"

\* C18: the mirrorTxHash of a ProcessedDeposit is the hash under which the
\* destination ledger holds a mirror transaction of that deposit (the hash
\* its submit returned).
C18_RecordedHashIsSubmittedHash ==
  \A d \in DOMAIN processed_deposits :
    \E t \in Submissions(d) : t.hash = processed_deposits[d].mirrorTxHash

\* C19: every row of processed_deposits has the status CONFIRMED or FAILED
\* of MirrorStatus; none has UNSPECIFIED, PENDING or SUBMITTED.
C19_ProcessedStatusTerminal ==
  \A d \in DOMAIN processed_deposits :
    processed_deposits[d].status \in {MirrorStatus.CONFIRMED, MirrorStatus.FAILED}

\* The CONFIRMED update of d1 has written its row.
C19_Witness ==
  /\ InProcessed("d1")
  /\ processed_deposits["d1"].status = MirrorStatus.CONFIRMED
  /\ \E s \in DOMAIN workers : workers[s].pc = "confirm_remove"

strictEquals(a, b) == typeof(a) = typeof(b) /\ a = b

\* C21: the deposit that loadBridgeState reads back for a PendingMirror is
\* the DepositEvent that addPendingMirror stored, field by field (the values
\* of its metadata map included).
C21_DepositRoundTrip ==
  \A e \in everStored :
    InPending(e.transactionHash)
      => \E pending \in loadBridgeState(TRUE).pendingMirrors :
           /\ pending.depositTxHash = e.transactionHash
           /\ DOMAIN pending.deposit = DOMAIN e
           /\ \A key \in DOMAIN e :
                IF typeof(e[key]) = "object"
                  THEN /\ typeof(pending.deposit[key]) = "object"
                       /\ DOMAIN pending.deposit[key] = DOMAIN e[key]
                       /\ \A k \in DOMAIN e[key] :
                            strictEquals(pending.deposit[key][k], e[key][k])
                  ELSE strictEquals(pending.deposit[key], e[key])

\* C22: the depositQueue is a FIFO between publishDeposit and the one
\* subscriber: a publishDeposit that succeeds appends its event once at the
\* tail, the subscriber receives the event at the head and that event
\* leaves the queue, and nothing else changes the queue; every event in it
\* was published in this boot.
C22_SubscriberFifo ==
  /\ [] ( \A i \in 1..Len(depositQueue) : depositQueue[i] \in offered )
  /\ [][ /\ (indexer.pc = "publish_offer" /\ indexer'.pc # "publish_offer")
             => depositQueue' = Append(depositQueue, indexer.event)
         /\ (LiveSlot \notin DOMAIN workers /\ LiveSlot \in DOMAIN workers')
             => /\ depositQueue # << >>
                /\ workers'[LiveSlot].deposit = Head(depositQueue)
                /\ depositQueue' = Tail(depositQueue)
         /\ depositQueue' # depositQueue
             => \/ indexer.pc = "publish_offer" /\ indexer'.pc # "publish_offer"
                \/ LiveSlot \notin DOMAIN workers /\ LiveSlot \in DOMAIN workers' ]_vars

\* d1 and d2 were published in this order; the subscriber has received d1
\* and d2 is the next in the queue.
C22_Witness ==
  /\ LiveSlot \in DOMAIN workers
  /\ workers[LiveSlot].deposit.transactionHash = "d1"
  /\ workers[LiveSlot].pc = "attempt"
  /\ Len(depositQueue) = 1
  /\ depositQueue[1].transactionHash = "d2"
  /\ SweepSlots = {}
  /\ DOMAIN pending_mirrors = {"d1", "d2"}

\* C23: no mirror attempt for a deposit starts before the deposit has been
\* offered to the subscriber channel: in the first boot every execution of
\* processDeposit is for an event that is in the history of offered events.
C23_NoAttemptBeforeOffered ==
  crashes = 0 => \A s \in DOMAIN workers : workers[s].deposit \in offered

\* C24: the CONFIRMED update of a deposit is made only by an execution of
\* processDeposit whose submission the destination has accepted: an
\* execution in its CONFIRMED update, and every deposit with a CONFIRMED
\* row, has a mirror transaction on the destination ledger, and only such an
\* execution writes a row of processed_deposits.
C24_ConfirmedAfterSubmission ==
  /\ [] ( \A s \in DOMAIN workers :
            workers[s].pc \in {"confirm_add", "confirm_remove", "confirm_return"}
              => Submissions(workers[s].deposit.transactionHash) # {} )
  /\ [] ( \A d \in DOMAIN processed_deposits :
            processed_deposits[d].status = CONFIRMED => Submissions(d) # {} )
  /\ [][ \A d \in TxHashes :
           (d \in DOMAIN processed_deposits' /\ d \notin DOMAIN processed_deposits)
             => \E s \in DOMAIN workers :
                  /\ workers[s].deposit.transactionHash = d
                  /\ workers[s].pc = "confirm_add"
                  /\ Submissions(d) # {} ]_vars

\* The CONFIRMED update of d1 has returned true after its submission.
C24_Witness ==
  /\ \E s \in DOMAIN workers :
       /\ workers[s].deposit.transactionHash = "d1"
       /\ workers[s].pc = "confirm_return"
       /\ workers[s].result = "true"
  /\ InProcessed("d1")
  /\ processed_deposits["d1"].status = CONFIRMED
  /\ Submissions("d1") # {}

\* C25: the error of a failed mirror attempt is propagated to the caller of
\* processDeposit.  On the subscription the caller is Stream.mapEffect, whose
\* failure run answers with Stream.empty: once an attempt of the
\* subscription has failed, no further event is taken from the subscription.
C25_FailurePropagated ==
  [][ (LiveSlot \notin DOMAIN workers /\ LiveSlot \in DOMAIN workers')
        => ~ liveFailed ]_vars

\* C26: no increment of retryCount is lost: the step in which a FAILED update
\* writes the row of its deposit and returns true leaves the stored
\* retryCount one above what it was before the step, also when another
\* FAILED update for the same deposit is running.
C26_NoLostIncrement ==
  [][ \A s \in DOMAIN workers :
        LET d == workers[s].deposit.transactionHash IN
        ( /\ workers[s].pc = "fail_update"
          /\ s \in DOMAIN workers'
          /\ workers'[s].pc = "fail_return"
          /\ workers'[s].result = "true"
          /\ d \in DOMAIN pending_mirrors )
          => /\ d \in DOMAIN pending_mirrors'
             /\ pending_mirrors'[d].retryCount = pending_mirrors[d].retryCount + 1 ]_vars

\* C27: a failed attempt does not stop the Mirror.  After an attempt of the
\* subscription has failed, an event that is in the depositQueue is still
\* taken by the subscription, and a deposit with a failed attempt on its row
\* is still brought to its ProcessedDeposit (the periodic sweep goes on
\* running).
C27_MirrorSurvivesFailure ==
  /\ \A e \in LaterEvents :
       (liveFailed /\ \E i \in 1..Len(depositQueue) : depositQueue[i] = e)
         ~> (LiveSlot \in DOMAIN workers /\ workers[LiveSlot].deposit = e)
  /\ \A e \in LaterEvents :
       ( /\ InPending(e.transactionHash)
         /\ pending_mirrors[e.transactionHash].retryCount >= 1 )
         ~> (InProcessed(e.transactionHash) /\ ~ InPending(e.transactionHash))

\* The attempt of the subscription for one deposit has failed; the deposit
\* published after it was taken from the subscription and is confirmed.
C27_Witness ==
  /\ liveFailed
  /\ LiveSlot \in DOMAIN workers
  /\ workers[LiveSlot].pc = "confirm_return"
  /\ workers[LiveSlot].result = "true"
  /\ \E d \in DOMAIN pending_mirrors :
       /\ d # workers[LiveSlot].deposit.transactionHash
       /\ pending_mirrors[d].retryCount = 1

\* C28: when publishDeposit has failed for an event, the txHash of the event
\* is not in the in-memory processedDeposits set of the Indexer.
C28_FailedPublishForgotten ==
  indexer.error = "RelayerError"
    => indexer.event.transactionHash \notin processedDeposits

\* C29: when the source stream has failed and the retry delay is over, the
\* Indexer subscribes again: it is back on the deposit stream.
C29_ResubscribesAfterStreamError ==
  [][ (indexer.pc = "retry_sleep" /\ indexer'.pc # "retry_sleep")
        => indexer'.pc = "watch" ]_vars

\* C30: at most SweepConcurrency (3) executions of processDeposit are in
\* flight at any time, those of the periodic sweep and of the subscription
\* counted together.
C30_AtMostThreeInFlight ==
  Cardinality(DOMAIN workers) <= SweepConcurrency

\* C31: loadBridgeState surfaces a failed read of the store as an error and
\* never answers it with a state value, so updateMirrorStatus(d, FAILED) does
\* not treat an unreadable store as an empty one: the call answers "no
\* pending mirror" (false) only when pending_mirrors had no row of d.
C31_UnreadableStoreNotEmpty ==
  \A s \in DOMAIN workers :
    (workers[s].pc = "fail_return" /\ workers[s].result = "false")
      => ~workers[s].hadPending

\* C32: updatePendingMirror changes only the retry fields of the row of d
\* and leaves deposit_data and every other row as they were; when
\* pending_mirrors has no row of d the store stays as it is and the caller
\* is told so (the FAILED update does not answer true).
C32_UpdateReportsMissingRow ==
  [][ \A s \in DOMAIN workers :
        LET d == workers[s].deposit.transactionHash IN
        ( /\ workers[s].pc = "fail_update"
          /\ s \in DOMAIN workers'
          /\ workers'[s].pc = "fail_return" )
        => /\ DOMAIN pending_mirrors' = DOMAIN pending_mirrors
           /\ \A h \in DOMAIN pending_mirrors :
                /\ pending_mirrors'[h].deposit_data = pending_mirrors[h].deposit_data
                /\ h # d => pending_mirrors'[h] = pending_mirrors[h]
           /\ ~InPending(d) => workers'[s].result # "true" ]_vars

\* The deposits the adapter, the Indexer, the queue and the store hold.
DepositsInFlight ==
  { watchStream.emitted[i] : i \in 1..Len(watchStream.emitted) } \cup
  ({indexer.event} \ {NoEvent}) \cup
  { depositQueue[i] : i \in 1..Len(depositQueue) } \cup
  everStored \cup
  { deserializeWithBigInt(pending_mirrors[h].deposit_data) :
      h \in DOMAIN pending_mirrors }

\* The deposits of the outputs of the applied transactions received.
DepositsApplied ==
  UNION { { extractDepositsFromTx(event.Tx, watchedAddress)[i] :
              i \in 1..Len(extractDepositsFromTx(event.Tx, watchedAddress)) } :
          event \in { x \in watchStream.received :
                        x.action = "apply" /\ x.Tx # NoTx } }

\* C33: only the events with action apply produce DepositEvents: every
\* deposit emitted, published or pending comes from an output of an applied
\* transaction, an undo event or an event whose transaction cannot be read
\* emits nothing, and no event received ends the stream of the Indexer.
C33_OnlyApplyYieldsDeposits ==
  /\ [](DepositsInFlight \subseteq DepositsApplied)
  /\ [][ \A event \in watchStream.received' \ watchStream.received :
           /\ indexer' = indexer
           /\ (event.action # "apply" \/ ~event.Tx.readable)
                => watchStream.emitted' = watchStream.emitted ]_vars

\* An undo event, an unreadable transaction and a transaction with an
\* undecodable output were received; the deposit of the decodable output is
\* pending and the Indexer is still on the stream.
C33_Witness ==
  /\ { [action |-> "undo", Tx |-> Tx7], [action |-> "undo", Tx |-> Tx1],
       [action |-> "apply", Tx |-> Tx8], [action |-> "apply", Tx |-> Tx6] }
       \subseteq watchStream.received
  /\ InPending("d6")
  /\ ~InPending("d7")
  /\ indexer.pc = "watch"

\* C34: a ProcessedDeposit row, once written, is never removed by a later
\* operation, cleanupOldDeposits with any maxAgeMs included.
C34_ProcessedNeverRemoved ==
  [][ \A h \in DOMAIN processed_deposits : h \in DOMAIN processed_deposits' ]_vars

\* cleanupOldDeposits has counted the processed deposit d1 as old, and the
\* row of d1 is there.
C34_Witness ==
  /\ relayer.oldDeposits = 1
  /\ InProcessed("d1")

\* C35: a persistState that runs beside updateMirrorStatus or publishDeposit
\* never writes a stale row back: its saveBridgeState does not insert a row
\* that the store no longer has (a PendingMirror removed by a CONFIRMED
\* update in the meantime) and does not overwrite a row with older values.
C35_PersistWritesNoStaleRow ==
  [][ (relayer.persist = "save" /\ relayer'.persist = "idle")
        => /\ DOMAIN pending_mirrors' \subseteq DOMAIN pending_mirrors
           /\ \A h \in DOMAIN pending_mirrors :
                pending_mirrors'[h].retryCount >= pending_mirrors[h].retryCount
           /\ \A h \in DOMAIN processed_deposits :
                processed_deposits'[h] = processed_deposits[h] ]_vars

\* C36: a pending deposit whose attempts always fail does not block the
\* others: every other deposit that is pending is eventually submitted and
\* confirmed, whatever the order of the pending list and with more deposits
\* pending than the sweep runs at once.
C36_OthersEventuallyConfirmed ==
  \A h \in { e.transactionHash : e \in PoolEvents } :
    InPending(h) ~> ( /\ InProcessed(h)
                      /\ processed_deposits[h].status = CONFIRMED
                      /\ Submissions(h) # {}
                      /\ ~InPending(h) )

\* d2 has failed and is still pending, behind it the three other deposits
\* are confirmed.
C36_Witness ==
  /\ InPending("d2")
  /\ pending_mirrors["d2"].retryCount >= 2
  /\ \A h \in { e.transactionHash : e \in PoolEvents } :
       /\ ~InPending(h)
       /\ InProcessed(h)
       /\ processed_deposits[h].status = CONFIRMED

\* C37: under a configuration that validateConfig accepts, every deposit
\* that validateDeposit accepts passes the net-amount check of
\* createMirrorTransaction (amount - feeAmount > 1,000,000 lovelace).
C37_AcceptedDepositPassesNetCheck ==
  validateConfig(config) = "ok" =>
    \A s \in DOMAIN workers :
      validateDeposit(workers[s].deposit) = "ok" => netAmountOk(workers[s].deposit)

\* C38: when one source transaction has two or more outputs that pay the
\* watched address, every DepositEvent of these outputs that passes
\* validateDeposit is published to the Relayer: once the Indexer has taken
\* it from the stream and is back on the stream, the event has been stored;
\* none is dropped by the in-memory set of txHashes.
C38_EveryValidOutputPublished ==
  \A e \in DepositsApplied :
    ( /\ validateDeposit(e) = "ok"
      /\ \A i \in 1..Len(watchStream.emitted) : watchStream.emitted[i] # e
      /\ indexer.pc = "watch" )
    => e \in everStored

\* C39: the retryCount of a PendingMirror never decreases while its row
\* exists, also when publishDeposit is called again for the same txHash
\* (the source delivers the deposit again after a restart).
C39_RetryCountNeverDecreases ==
  [][ \A h \in DOMAIN pending_mirrors \cap DOMAIN pending_mirrors' :
        pending_mirrors'[h].retryCount >= pending_mirrors[h].retryCount ]_vars

\* C40: two runs of the periodic sweep never overlap: an execution of the
\* sweep that is not the next of the running list starts only when the
\* previous run has ended (no execution of it is left, its list is empty).
C40_SweepsDoNotOverlap ==
  [][ ( /\ ~ (SweepSlots' \subseteq SweepSlots)
        /\ ~ (sweepTodo # << >> /\ sweepTodo' = Tail(sweepTodo)) )
      => (SweepSlots = {} /\ sweepTodo = << >>) ]_vars

\* A later run of the sweep is under way: d2 has failed in an earlier run
\* and is being attempted again.
C40_Witness ==
  /\ InPending("d2")
  /\ pending_mirrors["d2"].retryCount >= 1
  /\ "d2" \in SweepSlots
  /\ workers["d2"].pc = "attempt"

====
